---- MODULE Spec2Model ----
(***************************************************************************)
(* A model of the anomaly-detection and evaluation pipeline of             *)
(* AircraftHealthML:                                                       *)
(*   monitoring/ml_models/Models/anomaly_detection.py                      *)
(*   monitoring/ml_models/Models/evaluation.py                             *)
(*                                                                         *)
(* The module holds several specifications over one set of variables:      *)
(*   SpecWindow  the sliding-window dataset read through a DataLoader      *)
(*   SpecEval    AnomalyEvaluator.normalize_scores, find_optimal_threshold *)
(*   SpecValidate  validate_data, fit_ngafid and NGAFIDAnomalyDetector.fit *)
(*               applied to one table                                      *)
(*   Spec        a HybridAnomalyDetector in memory: construction, the two  *)
(*               fits, detection and scoring                               *)
(*   SpecPersist a HybridAnomalyDetector built and saved, then load_models *)
(*               into it or into a new instance                            *)
(* Each specification leaves the variables of the others at their initial  *)
(* values.                                                                 *)
(***************************************************************************)
EXTENDS Integers, Sequences, FiniteSets, TLC

VARIABLES
    w_data,      \* ADAPTTimeSeriesDataset.data: the series, a sequence of rows
    w_L,         \* ADAPTTimeSeriesDataset.sequence_length
    w_batch,     \* DataLoader batch_size
    w_pc,        \* position of the loop "for batch in dataloader"
    w_pos,       \* index of the next window the sampler hands out
    w_emitted,   \* the windows read so far, in order
    e_y,         \* y_true: the 0/1 labels
    e_scores,    \* the score array the evaluator holds, as exact rationals
    e_prev,      \* the score array before the last normalize_scores
    e_norms,     \* how many times normalize_scores was applied
    e_method,    \* the method of the last find_optimal_threshold
    e_out,       \* what the last find_optimal_threshold returned or raised
    v_frame,     \* a table: the cells of its numeric column, row by row
    v_replaced,  \* whether the table's infinities were replaced by finite values
    v_out,       \* the last call on the table and how it ended
    d_weights,   \* adapt_detector's parameters: the trainings they went through
    d_adapt_scaler, \* adapt_scaler
    d_ngafid,    \* ngafid_detector: its scaler and its isolation forest
    d_L,         \* sequence_length
    d_result,    \* the last call on the detector and how it ended
    d_is_adapt,  \* is_adapt: the modality the unified predict dispatches to
    d_last_fit,  \* history: the shape of the input of the last unified fit, or "none"
    d_dispatch,  \* the method the last unified predict called, or "none"
    p_phase,     \* "build" until save_models has run, then "saved"
    p_dir,       \* the model directory: the three artifact files
    p_saved,     \* the detector as it was when save_models ran (history)
    p_loader,    \* the instance in hand: "saver", "fresh" (new, nothing loaded), "loaded"
    c_args,      \* cross_validate's arguments: X (rows, shape), y, n_splits, time_series
    c_pc,        \* "idle", "loop" (folds left), "returned", or the exception that left the call
    c_used,      \* KFold: the indices that were in a test fold already
    c_split,     \* the (train_idx, test_idx) of the last fold
    c_log,       \* per processed fold: how far it got and what it raised (the error log)
    cv_scores,   \* the result dictionary: five lists
    r_metrics,   \* AnomalyEvaluator.metrics: dataset name -> metrics, or "none"
    r_passed,    \* history: per name, the input of the last evaluate that stored metrics
    r_returned,  \* history: per name, the input of the last evaluate that returned
    r_last,      \* the last evaluate call, how it ended and the registry before it
    a_results,   \* adapt_results.json of the last detection run, or how the run ended
    t_errors,    \* reconstruction_errors: one error per window, in order
    t_window,    \* rolling_window
    t_out,       \* what detect_adapt_anomalies made of the errors: thresholds and flags
    f_decision,  \* isolation_forest.decision_function of the rows in hand, row by row
    f_flags,     \* what detect_ngafid_anomalies returned for the rows
    f_scores,    \* what get_ngafid_anomaly_scores returned for the rows
    f_artifact,  \* ngafid_results.json, or [kind |-> "none"]
    f_response   \* the 'ngafid' part of what get_anomaly_results answered

w_vars == <<w_data, w_L, w_batch, w_pc, w_pos, w_emitted>>
e_vars == <<e_y, e_scores, e_prev, e_norms, e_method, e_out>>
v_vars == <<v_frame, v_replaced, v_out>>
d_unified == <<d_is_adapt, d_last_fit, d_dispatch>>
d_vars == <<d_weights, d_adapt_scaler, d_ngafid, d_L, d_result, d_unified>>
p_vars == <<p_phase, p_dir, p_saved, p_loader>>
c_vars == <<c_args, c_pc, c_used, c_split, c_log, cv_scores>>
r_vars == <<r_metrics, r_passed, r_returned, r_last>>
a_vars == <<a_results>>
t_vars == <<t_errors, t_window, t_out>>
f_vars == <<f_decision, f_flags, f_scores, f_artifact, f_response>>

vars == <<w_data, w_L, w_batch, w_pc, w_pos, w_emitted,
          e_y, e_scores, e_prev, e_norms, e_method, e_out,
          v_frame, v_replaced, v_out,
          d_weights, d_adapt_scaler, d_ngafid, d_L, d_result,
          d_is_adapt, d_last_fit, d_dispatch,
          p_phase, p_dir, p_saved, p_loader,
          c_args, c_pc, c_used, c_split, c_log, cv_scores,
          r_metrics, r_passed, r_returned, r_last, a_results,
          t_errors, t_window, t_out,
          f_decision, f_flags, f_scores, f_artifact, f_response>>

\* What an action of one component leaves alone: the other components.
w_others == <<e_vars, v_vars, d_vars, p_vars, c_vars, r_vars, a_vars, t_vars, f_vars>>
e_others == <<w_vars, v_vars, d_vars, p_vars, c_vars, r_vars, a_vars, t_vars, f_vars>>
v_others == <<w_vars, e_vars, d_vars, p_vars, c_vars, r_vars, a_vars, t_vars, f_vars>>
d_others == <<w_vars, e_vars, v_vars, c_vars, r_vars, a_vars, t_vars, f_vars>>
c_others == <<w_vars, e_vars, v_vars, p_vars, r_vars, a_vars, t_vars, f_vars>>
r_others == <<w_vars, e_vars, v_vars, d_vars, p_vars, c_vars, a_vars, t_vars, f_vars>>
a_others == <<w_vars, e_vars, v_vars, c_vars, r_vars, t_vars, f_vars>>
t_others == <<w_vars, e_vars, v_vars, d_vars, p_vars, c_vars, r_vars, a_vars, f_vars>>
f_others == <<w_vars, e_vars, v_vars, d_vars, p_vars, c_vars, r_vars, a_vars, t_vars>>

(***************************************************************************)
(* Bounds of the model.                                                    *)
(***************************************************************************)
MaxN == 3        \* rows of a series in SpecWindow
MaxD == 2        \* channels of a series in SpecWindow
MaxL == 3        \* window lengths in SpecWindow
MaxBatch == 2    \* DataLoader batch sizes in SpecWindow
MaxLen == 3      \* samples of a score array in SpecEval
MaxNorm == 2     \* successive normalize_scores calls in SpecEval
MaxVRows == 2    \* rows of a table in SpecValidate
MaxRows == 2     \* rows of a table handed to the detector
MaxSeqLen == 3   \* sequence_length of a detector
MaxTrain == 1    \* trainings a sequence model goes through

Min(a, b) == IF a < b THEN a ELSE b
Max(a, b) == IF a > b THEN a ELSE b

(***************************************************************************)
(* The values a component's variables keep while another specification     *)
(* runs.                                                                   *)
(***************************************************************************)
E_Idle ==
    /\ e_y = <<>> /\ e_scores = [num |-> <<>>, den |-> 1]
    /\ e_prev = [num |-> <<>>, den |-> 1]
    /\ e_norms = 0 /\ e_method = "none" /\ e_out = [kind |-> "none"]

\* The record of a call: the method, how it ended ("ok" or the error raised), the
\* table it was given and the array it returned.
Called(op, kind, arg, val) ==
    [op |-> op, kind |-> kind, rows |-> Len(arg), arg |-> arg, len |-> Len(val), val |-> val]
NoCall == Called("none", "none", <<>>, <<>>)

D_Idle ==
    /\ d_weights = <<>>
    /\ d_adapt_scaler = [fitted |-> FALSE, on |-> <<>>]
    /\ d_ngafid = [scaler |-> [fitted |-> FALSE, on |-> <<>>],
                   forest |-> [fitted |-> FALSE, on |-> <<>>]]
    /\ d_L = 1
    /\ d_result = NoCall
    /\ d_is_adapt = TRUE
    /\ d_last_fit = "none"
    /\ d_dispatch = "none"

P_Idle ==
    /\ p_phase = "build"
    /\ p_dir = [a \in {"adapt_detector.pth", "adapt_scaler.joblib", "ngafid_detector.joblib"}
                  |-> FALSE]
    /\ p_saved = [weights |-> <<>>,
                  scaler |-> [fitted |-> FALSE, on |-> <<>>],
                  ngafid |-> [scaler |-> [fitted |-> FALSE, on |-> <<>>],
                              forest |-> [fitted |-> FALSE, on |-> <<>>]],
                  L |-> 1]
    /\ p_loader = "saver"

EmptyScores == [roc_auc |-> <<>>, f1 |-> <<>>, precision |-> <<>>, recall |-> <<>>, mcc |-> <<>>]
C_Idle ==
    /\ c_args = [n |-> 0, bad |-> 0, shape |-> "1d", y |-> <<>>, k |-> 0, ts |-> TRUE]
    /\ c_pc = "idle"
    /\ c_used = {}
    /\ c_split = [train |-> {}, test |-> {}]
    /\ c_log = <<>>
    /\ cv_scores = EmptyScores

\* AnomalyEvaluator.__init__: self.metrics = {}
DatasetNames == {"adapt", "ngafid"}
Absent == [kind |-> "none"]
NoEvaluate == [name |-> "none", stage |-> "none", kind |-> "none", y |-> <<>>,
               scores |-> <<>>, before |-> [n \in DatasetNames |-> Absent]]
R_Idle ==
    /\ r_metrics = [n \in DatasetNames |-> Absent]
    /\ r_passed = [n \in DatasetNames |-> Absent]
    /\ r_returned = [n \in DatasetNames |-> Absent]
    /\ r_last = NoEvaluate

A_Idle == a_results = [kind |-> "none"]

T_Idle == t_errors = <<>> /\ t_window = 1 /\ t_out = [kind |-> "none"]

F_Idle ==
    /\ f_decision = <<>> /\ f_flags = <<>> /\ f_scores = <<>>
    /\ f_artifact = [kind |-> "none"] /\ f_response = [kind |-> "none"]

V_Idle ==
    /\ v_frame = <<>> /\ v_replaced = FALSE
    /\ v_out = [op |-> "none", kind |-> "none"]

W_Idle ==
    /\ w_data = <<>> /\ w_L = 1 /\ w_batch = 1
    /\ w_pc = "idle" /\ w_pos = 0 /\ w_emitted = <<>>

(***************************************************************************)
(* Sequence windowing: ADAPTTimeSeriesDataset.                             *)
(***************************************************************************)
\* The series of N rows and D channels, N in 0..MaxN, D in 1..MaxD.
Rows(D) == [1..D -> {0, 1}]
SeriesOf(D) == UNION {[1..n -> Rows(D)] : n \in 0..MaxN}
Series == UNION {SeriesOf(D) : D \in 1..MaxD}

\* __len__: len(self.data) - self.sequence_length + 1 (negative when N < L-1).
Dataset_len(data, L) == Len(data) - L + 1

\* __getitem__: the slice self.data[idx:idx + L] for idx >= 0; a Python slice
\* stops at the end of the data.
Dataset_getitem_Short(data, L, idx) == SubSeq(data, idx + 1, Min(idx + L - 1, Len(data)))
Dataset_getitem(data, L, idx) == SubSeq(data, idx + 1, Min(idx + L, Len(data)))

\* DataLoader(dataset, batch_size, shuffle=False): the sequential sampler is
\* range(len(dataset)); len() of a negative __len__ raises ValueError.
W_Start ==
    /\ w_data \in Series
    /\ w_L \in 1..MaxL
    /\ w_batch \in 1..MaxBatch
    /\ w_pc = "start"
    /\ w_pos = 0
    /\ w_emitted = <<>>

\* iter(dataloader): the sampler evaluates len(dataset).
W_Iter ==
    /\ w_pc = "start"
    /\ w_pc' = IF Dataset_len(w_data, w_L) < 0 THEN "ValueError" ELSE "iter"
    /\ UNCHANGED <<w_data, w_L, w_batch, w_pos, w_emitted, w_others>>

\* One batch: the next batch_size indices (fewer at the end), each read with
\* __getitem__.
W_NextBatch ==
    /\ w_pc = "iter"
    /\ w_pos < Dataset_len(w_data, w_L)
    /\ LET hi == Min(w_pos + w_batch, Dataset_len(w_data, w_L))
       IN  /\ w_emitted' = w_emitted \o
                 [k \in 1..(hi - w_pos) |-> Dataset_getitem(w_data, w_L, w_pos + k - 1)]
           /\ w_pos' = hi
    /\ UNCHANGED <<w_data, w_L, w_batch, w_pc, w_others>>

\* The sampler is exhausted: the loop ends.
W_Stop ==
    /\ w_pc = "iter"
    /\ w_pos >= Dataset_len(w_data, w_L)
    /\ w_pc' = "done"
    /\ UNCHANGED <<w_data, w_L, w_batch, w_pos, w_emitted, w_others>>

W_Next == W_Iter \/ W_NextBatch \/ W_Stop

W_Init == W_Start /\ E_Idle /\ V_Idle /\ D_Idle /\ P_Idle /\ C_Idle /\ R_Idle /\ A_Idle /\ T_Idle /\ F_Idle

SpecWindow == W_Init /\ [][W_Next]_vars

\* C1: for N >= L the windowing yields exactly N-L+1 windows, and window i
\* (i in 0..N-L) is exactly rows i..i+L-1 of the series: L rows of D columns.
C1_WindowsAreExactSlices ==
    (w_pc = "done" /\ Len(w_data) >= w_L) =>
        /\ Len(w_emitted) = Len(w_data) - w_L + 1
        /\ \A i \in 0..(Len(w_data) - w_L) :
              /\ Len(w_emitted[i + 1]) = w_L
              /\ \A j \in 1..w_L :
                    /\ w_emitted[i + 1][j] = w_data[i + j]
                    /\ DOMAIN w_emitted[i + 1][j] = DOMAIN w_data[1]

\* A series of three rows and two channels read with window length 2 and
\* batch size 1: two windows were emitted.
C1_Witness ==
    /\ w_pc = "done"
    /\ Len(w_data) = 3 /\ w_L = 2 /\ w_batch = 1
    /\ DOMAIN w_data[1] = 1..2
    /\ w_data[1] # w_data[2] /\ w_data[2] # w_data[3]
    /\ Len(w_emitted) = 2

(***************************************************************************)
(* Evaluator: AnomalyEvaluator.normalize_scores and find_optimal_threshold.*)
(*                                                                         *)
(* A score array is held exactly: [num |-> <<n1, .., nk>>, den |-> d] with *)
(* d > 0 stands for the reals n1/d, .., nk/d.  A threshold and a metric    *)
(* value are rationals [n |-> , d |-> ] with d > 0.                        *)
(***************************************************************************)
NumThresholds == 100                 \* np.linspace(0, 1, 100)
ScoreVals == {-1, 49, 98, 99}         \* raw scores of SpecEval
Methods == {"f1", "mcc", "balanced"}

Rat(n, d) == [n |-> n, d |-> d]
RatGT(a, b) == a.n * b.d > b.n * a.d
RatEq(a, b) == a.n * b.d = b.n * a.d
Sign(x) == IF x > 0 THEN 1 ELSE IF x < 0 THEN -1 ELSE 0

SeqMax(s) == CHOOSE x \in {s[i] : i \in DOMAIN s} : \A i \in DOMAIN s : x >= s[i]
SeqMin(s) == CHOOSE x \in {s[i] : i \in DOMAIN s} : \A i \in DOMAIN s : x <= s[i]

\* normalize_scores: zeros when max == min, else (scores - min) / (max - min).
\* With a common denominator d, (n/d - mn/d) / (mx/d - mn/d) = (n - mn)/(mx - mn).
normalize_scores_NoShift(S) ==
    IF SeqMax(S.num) = SeqMin(S.num)
    THEN [num |-> [i \in DOMAIN S.num |-> 0], den |-> 1]
    ELSE [num |-> S.num, den |-> SeqMax(S.num) - SeqMin(S.num)]
normalize_scores(S) ==
    IF SeqMax(S.num) = SeqMin(S.num)
    THEN [num |-> [i \in DOMAIN S.num |-> 0], den |-> 1]
    ELSE [num |-> [i \in DOMAIN S.num |-> S.num[i] - SeqMin(S.num)],
          den |-> SeqMax(S.num) - SeqMin(S.num)]

\* thresholds = np.linspace(0, 1, 100): thresholds[k] = k/99, k = 0..99.
ThresholdAt(k) == Rat(k, NumThresholds - 1)

\* y_pred = (scores > threshold).astype(int)
Predict(S, t) == [i \in DOMAIN S.num |-> IF S.num[i] * t.d > t.n * S.den THEN 1 ELSE 0]

Count(y, p, a, b) == Cardinality({i \in DOMAIN y : y[i] = a /\ p[i] = b})
TP(y, p) == Count(y, p, 1, 1)
TN(y, p) == Count(y, p, 0, 0)
FP(y, p) == Count(y, p, 0, 1)
FN(y, p) == Count(y, p, 1, 0)

\* sklearn f1_score (binary, zero_division="warn"): 2tp / (2tp + fp + fn), and
\* 0.0 when precision or recall is undefined or zero.
f1_score(y, p) ==
    LET tp == TP(y, p)
    IN  IF tp = 0 THEN [kind |-> "num", v |-> Rat(0, 1)]
        ELSE [kind |-> "num", v |-> Rat(2 * tp, 2 * tp + FP(y, p) + FN(y, p))]

\* sklearn matthews_corrcoef: (tp*tn - fp*fn) / sqrt((tp+fp)(tp+fn)(tn+fp)(tn+fn)),
\* and 0.0 when the product is 0.  The value m is held as sign(m) * m^2, a
\* rational; x |-> sign(x) * x^2 is strictly increasing and maps 0 to 0, so every
\* comparison of two values is the comparison the code makes.
matthews_corrcoef(y, p) ==
    LET tp == TP(y, p)
        tn == TN(y, p)
        fp == FP(y, p)
        fn == FN(y, p)
        c == tp * tn - fp * fn
        q == (tp + fp) * (tp + fn) * (tn + fp) * (tn + fn)
    IN  IF q = 0 THEN [kind |-> "num", v |-> Rat(0, 1)]
        ELSE [kind |-> "num", v |-> Rat(Sign(c) * c * c, q)]

\* method == 'balanced': tn, fp, fn, tp = confusion_matrix(y_true, y_pred).ravel();
\* specificity = tn / (tn + fp); sensitivity = tp / (tp + fn); their mean.
\* sklearn's matrix has one row per label present in y_true or y_pred: with a
\* single label it is 1x1 and the unpacking raises ValueError.  numpy's integer
\* division by zero yields nan (a warning, no exception).
balanced_metric(y, p) ==
    LET tp == TP(y, p)
        tn == TN(y, p)
        fp == FP(y, p)
        fn == FN(y, p)
    IN  IF Cardinality({y[i] : i \in DOMAIN y} \cup {p[i] : i \in DOMAIN p}) < 2
        THEN [kind |-> "ValueError"]
        ELSE IF tn + fp = 0 \/ tp + fn = 0
        THEN [kind |-> "nan"]
        ELSE [kind |-> "num",
              v |-> Rat(tn * (tp + fn) + tp * (tn + fp), 2 * (tn + fp) * (tp + fn))]

Metric(method, y, p) ==
    IF method = "f1" THEN f1_score(y, p)
    ELSE IF method = "mcc" THEN matthews_corrcoef(y, p)
    ELSE balanced_metric(y, p)

\* if metric > best_metric: best_metric = metric; best_threshold = threshold
\* (a comparison with nan is False).
KeepBest_NoMetricUpdate(m, k, best) ==
    IF m.kind = "num" /\ RatGT(m.v, best.metric)
    THEN [metric |-> best.metric, threshold |-> ThresholdAt(k)]
    ELSE best
KeepBest(m, k, best) ==
    IF m.kind = "num" /\ RatGT(m.v, best.metric)
    THEN [metric |-> m.v, threshold |-> ThresholdAt(k)]
    ELSE best

\* One pass of the loop body "for threshold in thresholds" at thresholds[k];
\* an exception raised by the metric leaves the loop.
ScanStep(method, y, S, k, st) ==
    IF st.kind = "ValueError" THEN st
    ELSE LET m == Metric(method, y, Predict(S, ThresholdAt(k)))
         IN  IF m.kind = "ValueError" THEN [kind |-> "ValueError"]
             ELSE [kind |-> "run", best |-> KeepBest(m, k, st.best)]

\* The passes lo..hi of the loop in order, from loop state st (the range is
\* halved only to keep the evaluation shallow: the passes run lo, lo+1, .., hi).
RECURSIVE Scan(_, _, _, _, _, _)
Scan(method, y, S, lo, hi, st) ==
    IF lo = hi THEN ScanStep(method, y, S, lo, st)
    ELSE LET mid == (lo + hi) \div 2
             left == Scan(method, y, S, lo, mid, st)
         IN  IF left.kind = "ValueError" THEN left
             ELSE Scan(method, y, S, mid + 1, hi, left)

\* best_metric = 0, best_threshold = 0.5; the loop; return best_threshold
find_optimal_threshold(y, S, method) ==
    LET end == Scan(method, y, normalize_scores(S), 0, NumThresholds - 1,
                    [kind |-> "run",
                     best |-> [metric |-> Rat(0, 1), threshold |-> Rat(1, 2)]])
    IN  IF end.kind = "ValueError" THEN [kind |-> "ValueError"]
        ELSE [kind |-> "ok", t |-> end.best.threshold]

ScoreArrays == UNION {[1..n -> ScoreVals] : n \in 1..MaxLen}

E_Start ==
    /\ e_scores \in {[num |-> s, den |-> 1] : s \in ScoreArrays}
    /\ e_y \in [DOMAIN e_scores.num -> {0, 1}]
    /\ e_prev = e_scores
    /\ e_norms = 0
    /\ e_method = "none"
    /\ e_out = [kind |-> "none"]

\* scores = self.normalize_scores(scores)
E_Normalize ==
    /\ e_out.kind = "none"
    /\ e_norms < MaxNorm
    /\ e_prev' = e_scores
    /\ e_scores' = normalize_scores(e_scores)
    /\ e_norms' = e_norms + 1
    /\ UNCHANGED <<e_y, e_method, e_out, e_others>>

\* threshold = self.find_optimal_threshold(y_true, scores, method), on raw
\* scores (a caller's own) or on scores normalized once (evaluate, cross_validate).
E_FindThreshold ==
    /\ e_out.kind = "none"
    /\ e_norms <= 1
    /\ \E method \in Methods :
          /\ e_method' = method
          /\ e_out' = find_optimal_threshold(e_y, e_scores, method)
    /\ UNCHANGED <<e_y, e_scores, e_prev, e_norms, e_others>>

E_Next == E_Normalize \/ E_FindThreshold

E_Init == E_Start /\ W_Idle /\ V_Idle /\ D_Idle /\ P_Idle /\ C_Idle /\ R_Idle /\ A_Idle /\ T_Idle /\ F_Idle

SpecEval == E_Init /\ [][E_Next]_vars

(***************************************************************************)
(* Tables and the validation rule: HybridAnomalyDetector.validate_data,    *)
(* NGAFIDAnomalyDetector.fit, HybridAnomalyDetector.fit_ngafid.            *)
(*                                                                         *)
(* A table is the sequence of the cells of one numeric column (what        *)
(* select_dtypes(include=[np.number]) keeps).  A cell is a float: a number *)
(* (an integer here), nan, +inf or -inf.                                   *)
(***************************************************************************)
SanityBound == 1000000               \* 1e6 in validate_data

Num(x) == [kind |-> "num", v |-> x]
NaN == [kind |-> "nan", v |-> 0]
PInf == [kind |-> "pinf", v |-> 0]
NInf == [kind |-> "ninf", v |-> 0]

Cells(f) == {f[i] : i \in DOMAIN f}
IsNull(c) == c.kind = "nan"
IsInf(c) == c.kind \in {"pinf", "ninf"}
HasInf(f) == \E c \in Cells(f) : IsInf(c)
HasNaN(f) == \E c \in Cells(f) : IsNull(c)
\* The float comparison c > x: False for nan, True for +inf, False for -inf.
GreaterThan(c, x) == c.kind = "pinf" \/ (c.kind = "num" /\ c.v > x)

\* validate_data: the first failing test raises ValueError (a data-quality
\* error); the three tests are isnull().any().any(), np.isinf(values).any() and
\* (values > 1e6).any().
validate_data(f) ==
    IF \E c \in Cells(f) : IsNull(c) THEN "DataQualityError"
    ELSE IF \E c \in Cells(f) : IsInf(c) THEN "DataQualityError"
    ELSE IF \E c \in Cells(f) : GreaterThan(c, SanityBound) THEN "DataQualityError"
    ELSE "ok"

\* The unfitted StandardScaler / IsolationForest, and one fitted on a table.  The
\* arithmetic of fitting is not computed: a fitted estimator is identified by
\* the table it was fitted on.
Unfitted == [fitted |-> FALSE, on |-> <<>>]
FittedOn(f) == [fitted |-> TRUE, on |-> f]

\* NGAFIDAnomalyDetector.fit, the cleaning: replace([inf, -inf], nan), then
\* fillna(median()): a column with a finite value has every nan filled by its
\* median (held symbolically), a column with none keeps its nan; then the clip
\* to the 1%..99% quantiles, which leaves a nan a nan.
Median == [kind |-> "median", v |-> 0]
Cleaned(f) ==
    LET g == [i \in DOMAIN f |-> IF IsInf(f[i]) THEN NaN ELSE f[i]]
    IN  IF \E c \in Cells(g) : ~IsNull(c)
        THEN [i \in DOMAIN g |-> IF IsNull(g[i]) THEN Median ELSE g[i]]
        ELSE g

\* NGAFIDAnomalyDetector.fit on detector ng = [scaler, forest]: the cleaning,
\* scaler.fit_transform (StandardScaler accepts nan), isolation_forest.fit
\* (sklearn's input check raises ValueError on nan, after the scaler was fitted).
NGAFIDAnomalyDetector_fit(ng, f) ==
    IF \E c \in Cells(Cleaned(f)) : IsNull(c)
    THEN [kind |-> "ValueError",
          ng |-> [scaler |-> FittedOn(Cleaned(f)), forest |-> ng.forest]]
    ELSE [kind |-> "ok",
          ng |-> [scaler |-> FittedOn(Cleaned(f)), forest |-> FittedOn(Cleaned(f))]]

\* fit_ngafid: self.validate_data(data); self.ngafid_detector.fit(data)
fit_ngafid_NoValidation(ng, f) == NGAFIDAnomalyDetector_fit(ng, f)
fit_ngafid(ng, f) ==
    IF validate_data(f) # "ok" THEN [kind |-> validate_data(f), ng |-> ng]
    ELSE NGAFIDAnomalyDetector_fit(ng, f)

FreshNgafid == [scaler |-> Unfitted, forest |-> Unfitted]

\* The cells of SpecValidate: around the sanity bound on both sides, and the
\* non-finite floats.
VCells == {Num(1), Num(SanityBound), Num(SanityBound + 1), Num(0 - SanityBound),
           Num(0 - SanityBound - 1), NaN, PInf, NInf}
VFrames == UNION {[1..n -> VCells] : n \in 1..MaxVRows}
VFinite == {Num(1), Num(SanityBound), Num(SanityBound + 1), Num(0 - SanityBound - 1)}

V_Start ==
    /\ v_frame \in VFrames
    /\ v_replaced = FALSE
    /\ v_out = [op |-> "none", kind |-> "none"]

\* detector.validate_data(data)
V_Validate ==
    /\ v_out' = [op |-> "validate_data", kind |-> validate_data(v_frame)]
    /\ UNCHANGED <<v_frame, v_replaced, v_others>>

\* detector.fit_ngafid(data), on a new detector
V_FitNgafid ==
    /\ v_out' = [op |-> "fit_ngafid", kind |-> fit_ngafid(FreshNgafid, v_frame).kind]
    /\ UNCHANGED <<v_frame, v_replaced, v_others>>

\* NGAFIDAnomalyDetector().fit(data), the tabular model called directly
V_TabularFit ==
    /\ v_out' = [op |-> "NGAFIDAnomalyDetector.fit",
                 kind |-> NGAFIDAnomalyDetector_fit(FreshNgafid, v_frame).kind]
    /\ UNCHANGED <<v_frame, v_replaced, v_others>>

\* The caller preprocesses: every infinity of the table is replaced by one
\* finite value.
V_ReplaceInf ==
    /\ ~v_replaced
    /\ \E c \in Cells(v_frame) : IsInf(c)
    /\ \E x \in VFinite :
          v_frame' = [i \in DOMAIN v_frame |-> IF IsInf(v_frame[i]) THEN x ELSE v_frame[i]]
    /\ v_replaced' = TRUE
    /\ v_out' = [op |-> "none", kind |-> "none"]
    /\ UNCHANGED v_others

V_Next == V_Validate \/ V_FitNgafid \/ V_TabularFit \/ V_ReplaceInf

V_Init == V_Start /\ W_Idle /\ E_Idle /\ D_Idle /\ P_Idle /\ C_Idle /\ R_Idle /\ A_Idle /\ T_Idle /\ F_Idle

SpecValidate == V_Init /\ [][V_Next]_vars

(***************************************************************************)
(* HybridAnomalyDetector in memory.                                        *)
(*                                                                         *)
(* The network's parameters are identified by the trainings they went      *)
(* through, in order (training starts from the current parameters); the    *)
(* random initialisation is not distinguished.  A reconstruction error is  *)
(* the term (parameters, scaled window).  All instances have the same      *)
(* adapt_input_dim and hidden_dim, and n_epochs >= 1.                       *)
(***************************************************************************)
DCells == {Num(1), PInf}
DFrames == UNION {[1..n -> DCells] : n \in 1..MaxRows}
SeqLens == 1..MaxSeqLen

\* fit_adapt: validate_data; adapt_scaler.fit_transform; the dataset and
\* DataLoader(shuffle=True); the training loop.  With no window (N < L) the
\* random sampler raises ValueError when the loader is built (where a sampler
\* accepts an empty dataset, avg_loss divides by len(dataloader) = 0): the
\* scaler is fitted by then, the parameters are not trained.
fit_adapt_ScaleFirst(w, sc, L, f) ==
    IF validate_data(f) # "ok"
    THEN [kind |-> validate_data(f), weights |-> w, scaler |-> FittedOn(f)]
    ELSE IF Dataset_len(f, L) <= 0
    THEN [kind |-> "SizingError", weights |-> w, scaler |-> FittedOn(f)]
    ELSE [kind |-> "ok", weights |-> Append(w, [on |-> f, L |-> L]),
          scaler |-> FittedOn(f)]
fit_adapt(w, sc, L, f) ==
    IF validate_data(f) # "ok"
    THEN [kind |-> validate_data(f), weights |-> w, scaler |-> sc]
    ELSE IF Dataset_len(f, L) <= 0
    THEN [kind |-> "SizingError", weights |-> w, scaler |-> FittedOn(f)]
    ELSE [kind |-> "ok", weights |-> Append(w, [on |-> f, L |-> L]),
          scaler |-> FittedOn(f)]

\* adapt_scaler.transform(data): NotFittedError before a fit, ValueError on an
\* infinity (nan is let through).
ScalerTransform(sc, f) ==
    IF ~sc.fitted THEN "NotFittedError"
    ELSE IF HasInf(f) THEN "ValueError"
    ELSE "ok"
Scaled(sc, f) == [i \in DOMAIN f |-> [x |-> f[i], by |-> sc.on]]

\* The loop over the DataLoader (shuffle=False): one error per window, in order;
\* len() of a negative __len__ raises ValueError, an empty dataset yields no
\* batch.
ReconstructionErrors(w, sc, L, f) ==
    [i \in 1..Dataset_len(f, L) |->
        [weights |-> w, window |-> Dataset_getitem(Scaled(sc, f), L, i - 1)]]

\* get_adapt_anomaly_scores: np.array(reconstruction_errors)
get_adapt_anomaly_scores(w, sc, L, f) ==
    IF ScalerTransform(sc, f) # "ok" THEN [kind |-> ScalerTransform(sc, f), val |-> <<>>]
    ELSE IF Dataset_len(f, L) < 0 THEN [kind |-> "SizingError", val |-> <<>>]
    ELSE [kind |-> "ok", val |-> ReconstructionErrors(w, sc, L, f)]

\* detect_adapt_anomalies: the same errors, each compared with the rolling
\* threshold; one flag per window (the flag is held as the term it is computed
\* from: the position and the errors).
detect_adapt_anomalies(w, sc, L, f) ==
    IF ScalerTransform(sc, f) # "ok" THEN [kind |-> ScalerTransform(sc, f), val |-> <<>>]
    ELSE IF Dataset_len(f, L) < 0 THEN [kind |-> "SizingError", val |-> <<>>]
    ELSE [kind |-> "ok",
          val |-> [i \in 1..Dataset_len(f, L) |->
                      [at |-> i, errors |-> ReconstructionErrors(w, sc, L, f)]]]

\* NGAFIDAnomalyDetector.predict / score_samples: scaler.transform, then the
\* forest; each raises NotFittedError before its fit and ValueError on a
\* non-finite input.
NgafidInput(ng, f) ==
    IF ~ng.scaler.fitted THEN "NotFittedError"
    ELSE IF HasInf(f) THEN "ValueError"
    ELSE IF ~ng.forest.fitted THEN "NotFittedError"
    ELSE IF HasNaN(f) THEN "ValueError"
    ELSE "ok"

\* get_ngafid_anomaly_scores: -decision_function(scaled), one score per row.
get_ngafid_anomaly_scores(ng, f) ==
    IF NgafidInput(ng, f) # "ok" THEN [kind |-> NgafidInput(ng, f), val |-> <<>>]
    ELSE [kind |-> "ok",
          val |-> [i \in DOMAIN f |-> [forest |-> ng.forest.on, x |-> f[i], by |-> ng.scaler.on]]]

\* detect_ngafid_anomalies: predict(data) == -1, one flag per row.
detect_ngafid_anomalies(ng, f) ==
    IF NgafidInput(ng, f) # "ok" THEN [kind |-> NgafidInput(ng, f), val |-> <<>>]
    ELSE [kind |-> "ok",
          val |-> [i \in DOMAIN f |->
                      [label_of |-> [forest |-> ng.forest.on, x |-> f[i], by |-> ng.scaler.on]]]]


\* HybridAnomalyDetector(adapt_input_dim, sequence_length=L): a new instance in
\* hand.
D_Start ==
    /\ d_weights = <<>>
    /\ d_adapt_scaler = Unfitted
    /\ d_ngafid = FreshNgafid
    /\ d_L \in SeqLens
    /\ d_result = Called("__init__", "ok", <<>>, <<>>)
    /\ d_is_adapt = TRUE
    /\ d_last_fit = "none"
    /\ d_dispatch = "none"

D_Construct ==
    /\ p_phase = "build"
    /\ \E L \in SeqLens : d_L' = L
    /\ d_weights' = <<>>
    /\ d_adapt_scaler' = Unfitted
    /\ d_ngafid' = FreshNgafid
    /\ d_result' = Called("__init__", "ok", <<>>, <<>>)
    /\ d_is_adapt' = TRUE
    /\ d_last_fit' = "none"
    /\ d_dispatch' = "none"
    /\ UNCHANGED <<p_vars, d_others>>

D_FitAdapt ==
    /\ p_phase = "build"
    /\ \E f \in DFrames :
          LET r == fit_adapt(d_weights, d_adapt_scaler, d_L, f)
          IN  /\ Len(r.weights) <= MaxTrain
              /\ d_weights' = r.weights
              /\ d_adapt_scaler' = r.scaler
              /\ d_result' = Called("fit_adapt", r.kind, f, <<>>)
    /\ UNCHANGED <<d_ngafid, d_L, p_vars, d_unified, d_others>>

D_FitNgafid ==
    /\ p_phase = "build"
    /\ \E f \in DFrames :
          LET r == fit_ngafid(d_ngafid, f)
          IN  /\ d_ngafid' = r.ng
              /\ d_result' = Called("fit_ngafid", r.kind, f, <<>>)
    /\ UNCHANGED <<d_weights, d_adapt_scaler, d_L, p_vars, d_unified, d_others>>

D_DetectAdapt ==
    /\ \E f \in DFrames :
          LET r == detect_adapt_anomalies(d_weights, d_adapt_scaler, d_L, f)
          IN  d_result' = Called("detect_adapt_anomalies", r.kind, f, r.val)
    /\ UNCHANGED <<d_weights, d_adapt_scaler, d_ngafid, d_L, p_vars, d_unified, d_others>>

D_GetAdaptScores ==
    /\ \E f \in DFrames :
          LET r == get_adapt_anomaly_scores(d_weights, d_adapt_scaler, d_L, f)
          IN  d_result' = Called("get_adapt_anomaly_scores", r.kind, f, r.val)
    /\ UNCHANGED <<d_weights, d_adapt_scaler, d_ngafid, d_L, p_vars, d_unified, d_others>>

D_DetectNgafid ==
    /\ \E f \in DFrames :
          LET r == detect_ngafid_anomalies(d_ngafid, f)
          IN  d_result' = Called("detect_ngafid_anomalies", r.kind, f, r.val)
    /\ UNCHANGED <<d_weights, d_adapt_scaler, d_ngafid, d_L, p_vars, d_unified, d_others>>

D_GetNgafidScores ==
    /\ \E f \in DFrames :
          LET r == get_ngafid_anomaly_scores(d_ngafid, f)
          IN  d_result' = Called("get_ngafid_anomaly_scores", r.kind, f, r.val)
    /\ UNCHANGED <<d_weights, d_adapt_scaler, d_ngafid, d_L, p_vars, d_unified, d_others>>

D_Next ==
    \/ D_Construct
    \/ D_FitAdapt
    \/ D_FitNgafid
    \/ D_DetectAdapt
    \/ D_GetAdaptScores
    \/ D_DetectNgafid
    \/ D_GetNgafidScores

D_Init == D_Start /\ P_Idle /\ W_Idle /\ E_Idle /\ V_Idle /\ C_Idle /\ R_Idle /\ A_Idle /\ T_Idle /\ F_Idle

Spec == D_Init /\ [][D_Next]_vars

(***************************************************************************)
(* Persistence: save_models and load_models.                               *)
(***************************************************************************)
Artifacts == {"adapt_detector.pth", "adapt_scaler.joblib", "ngafid_detector.joblib"}

\* load_models: the three artifacts are read and installed one after the other;
\* the first missing file raises FileNotFoundError and ends the call.  dir tells
\* which files exist, saved what the last save_models wrote into them.
load_models_SkipScaler(w, sc, ng, dir, saved) ==
    IF ~dir["adapt_detector.pth"]
    THEN [kind |-> "FileNotFoundError", weights |-> w, scaler |-> sc, ngafid |-> ng]
    ELSE IF ~dir["adapt_scaler.joblib"]
    THEN [kind |-> "FileNotFoundError", weights |-> saved.weights, scaler |-> sc,
          ngafid |-> ng]
    ELSE IF ~dir["ngafid_detector.joblib"]
    THEN [kind |-> "FileNotFoundError", weights |-> saved.weights, scaler |-> sc,
          ngafid |-> ng]
    ELSE [kind |-> "ok", weights |-> saved.weights, scaler |-> sc,
          ngafid |-> saved.ngafid]
load_models(w, sc, ng, dir, saved) ==
    IF ~dir["adapt_detector.pth"]
    THEN [kind |-> "FileNotFoundError", weights |-> w, scaler |-> sc, ngafid |-> ng]
    ELSE IF ~dir["adapt_scaler.joblib"]
    THEN [kind |-> "FileNotFoundError", weights |-> saved.weights, scaler |-> sc,
          ngafid |-> ng]
    ELSE IF ~dir["ngafid_detector.joblib"]
    THEN [kind |-> "FileNotFoundError", weights |-> saved.weights, scaler |-> saved.scaler,
          ngafid |-> ng]
    ELSE [kind |-> "ok", weights |-> saved.weights, scaler |-> saved.scaler,
          ngafid |-> saved.ngafid]

\* save_models: the state dict, the scaler and the tabular detector are written,
\* fitted or not.
P_Save ==
    /\ p_phase = "build"
    /\ p_phase' = "saved"
    /\ p_dir' = [a \in Artifacts |-> TRUE]
    /\ p_saved' = [weights |-> d_weights, scaler |-> d_adapt_scaler,
                   ngafid |-> d_ngafid, L |-> d_L]
    /\ p_loader' = "saver"
    /\ d_result' = Called("save_models", "ok", <<>>, <<>>)
    /\ UNCHANGED <<d_weights, d_adapt_scaler, d_ngafid, d_L, d_unified, d_others>>

\* A new instance is constructed to load into.
P_Fresh ==
    /\ p_phase = "saved"
    /\ \E L \in SeqLens : d_L' = L
    /\ d_weights' = <<>>
    /\ d_adapt_scaler' = Unfitted
    /\ d_ngafid' = FreshNgafid
    /\ d_result' = Called("__init__", "ok", <<>>, <<>>)
    /\ d_is_adapt' = TRUE
    /\ d_last_fit' = "none"
    /\ d_dispatch' = "none"
    /\ p_loader' = "fresh"
    /\ UNCHANGED <<p_phase, p_dir, p_saved, d_others>>

\* The environment: an artifact file disappears from the directory.
P_Remove ==
    /\ p_phase = "saved"
    /\ \E a \in Artifacts :
          /\ p_dir[a]
          /\ p_dir' = [p_dir EXCEPT ![a] = FALSE]
    /\ UNCHANGED <<p_phase, p_saved, p_loader, d_vars, d_others>>

P_Load ==
    /\ p_phase = "saved"
    /\ LET r == load_models(d_weights, d_adapt_scaler, d_ngafid, p_dir, p_saved)
       IN  /\ d_weights' = r.weights
           /\ d_adapt_scaler' = r.scaler
           /\ d_ngafid' = r.ngafid
           /\ d_result' = Called("load_models", r.kind, <<>>, <<>>)
           /\ p_loader' = IF r.kind = "ok" /\ p_loader = "fresh" THEN "loaded" ELSE p_loader
    /\ UNCHANGED <<d_L, p_phase, p_dir, p_saved, d_unified, d_others>>

P_Next ==
    \/ D_Construct
    \/ D_FitAdapt
    \/ D_FitNgafid
    \/ P_Save
    \/ P_Fresh
    \/ P_Remove
    \/ P_Load
    \/ D_GetAdaptScores
    \/ D_GetNgafidScores

SpecPersist == D_Init /\ [][P_Next]_vars

(***************************************************************************)
(* The unified fit / predict pair.  An input X is its shape class and the  *)
(* table pd.DataFrame(X) makes of it: "2d" for an array with two axes,     *)
(* "1d" for an array with one (an input with no shape attribute takes the   *)
(* same branch of fit).                                                    *)
(***************************************************************************)
Shapes == {"2d", "1d"}
Inputs == [shape : Shapes, frame : DFrames]

\* fit: is_adapt is assigned from the shape before fit_adapt / fit_ngafid is
\* called, so it is set even when that call raises.
fit_RefitBoth(w, sc, ng, L, X) ==
    IF X.shape = "2d"
    THEN LET r == fit_adapt(w, sc, L, X.frame)
         IN  [kind |-> r.kind, is_adapt |-> TRUE, weights |-> r.weights,
              scaler |-> r.scaler, ngafid |-> fit_ngafid(ng, X.frame).ng]
    ELSE LET r == fit_ngafid(ng, X.frame)
         IN  [kind |-> r.kind, is_adapt |-> FALSE, weights |-> w,
              scaler |-> FittedOn(X.frame), ngafid |-> r.ng]
fit(w, sc, ng, L, X) ==
    IF X.shape = "2d"
    THEN LET r == fit_adapt(w, sc, L, X.frame)
         IN  [kind |-> r.kind, is_adapt |-> TRUE, weights |-> r.weights,
              scaler |-> r.scaler, ngafid |-> ng]
    ELSE LET r == fit_ngafid(ng, X.frame)
         IN  [kind |-> r.kind, is_adapt |-> FALSE, weights |-> w,
              scaler |-> sc, ngafid |-> r.ng]

\* predict: the flags of the modality is_adapt names.
predict_ByShape(is_adapt, w, sc, ng, L, X) ==
    IF X.shape = "2d"
    THEN LET r == detect_adapt_anomalies(w, sc, L, X.frame)
         IN  [via |-> "detect_adapt_anomalies", kind |-> r.kind, val |-> r.val]
    ELSE LET r == detect_ngafid_anomalies(ng, X.frame)
         IN  [via |-> "detect_ngafid_anomalies", kind |-> r.kind, val |-> r.val]
predict(is_adapt, w, sc, ng, L, X) ==
    IF is_adapt
    THEN LET r == detect_adapt_anomalies(w, sc, L, X.frame)
         IN  [via |-> "detect_adapt_anomalies", kind |-> r.kind, val |-> r.val]
    ELSE LET r == detect_ngafid_anomalies(ng, X.frame)
         IN  [via |-> "detect_ngafid_anomalies", kind |-> r.kind, val |-> r.val]

D_Fit ==
    /\ p_phase = "build"
    /\ \E X \in Inputs :
          LET r == fit(d_weights, d_adapt_scaler, d_ngafid, d_L, X)
          IN  /\ Len(r.weights) <= MaxTrain
              /\ d_is_adapt' = r.is_adapt
              /\ d_weights' = r.weights
              /\ d_adapt_scaler' = r.scaler
              /\ d_ngafid' = r.ngafid
              /\ d_last_fit' = X.shape
              /\ d_result' = Called("fit", r.kind, X.frame, <<>>)
    /\ UNCHANGED <<d_L, d_dispatch, p_vars, d_others>>

D_Predict ==
    /\ \E X \in Inputs :
          LET r == predict(d_is_adapt, d_weights, d_adapt_scaler, d_ngafid, d_L, X)
          IN  /\ d_dispatch' = r.via
              /\ d_result' = Called("predict", r.kind, X.frame, r.val)
    /\ UNCHANGED <<d_weights, d_adapt_scaler, d_ngafid, d_L, d_is_adapt, d_last_fit,
                   p_vars, d_others>>

\* The unified pair among the other calls: the modality fits, save_models, and
\* load_models into the instance that saved or into a new one.
U_Next ==
    \/ D_Construct
    \/ D_Fit
    \/ D_Predict
    \/ D_FitAdapt
    \/ D_FitNgafid
    \/ P_Save
    \/ P_Fresh
    \/ P_Load

SpecUnified == D_Init /\ [][U_Next]_vars

\* The life of a deployed detector: it is trained through the modality fits
\* and the unified fit, saved, and from then on queried (detection, scoring, the
\* unified predict) and reloaded.
H_Train == D_FitAdapt \/ D_FitNgafid \/ D_Fit
H_Query ==
    /\ p_phase = "saved"
    /\ \/ D_DetectAdapt
       \/ D_GetAdaptScores
       \/ D_DetectNgafid
       \/ D_GetNgafidScores
       \/ D_Predict
H_Next == H_Train \/ P_Save \/ P_Load \/ H_Query

SpecHybrid == D_Init /\ [][H_Next]_vars

(***************************************************************************)
(* AnomalyEvaluator.cross_validate over a HybridAnomalyDetector.           *)
(*                                                                         *)
(* X has n rows of one column, all 1.0 but for an optional +inf row; y has *)
(* n labels in {0, 1}.  Indices are 1-based here (row i is numpy index     *)
(* i-1).  A metric value appended to a list is identified by the fold that *)
(* appended it.                                                            *)
(***************************************************************************)
MaxSamples == 6
MaxSplits == 2
RollingWindow == 50                  \* rolling_window of detect_adapt_anomalies

XFrame(n, bad) == [i \in 1..n |-> IF i = bad THEN PInf ELSE Num(1)]
\* X[idx], y[idx]: the rows at the indices, in ascending order
Take(seq, idx) ==
    [j \in 1..Cardinality(idx) |->
        seq[CHOOSE i \in idx : Cardinality({z \in idx : z < i}) = j - 1]]

\* TimeSeriesSplit(n_splits=k).split(X), fold i of 1..k: test_size = n // (k+1),
\* the test slices are the last k blocks of test_size rows, the training slice
\* is everything before the test slice.
TimeSeriesSplit_Complement(n, k, i) ==
    LET test_size == n \div (k + 1)
        start == n - k * test_size + (i - 1) * test_size
    IN  [train |-> (1..n) \ ((start + 1)..(start + test_size)),
         test |-> (start + 1)..(start + test_size)]
TimeSeriesSplit(n, k, i) ==
    LET test_size == n \div (k + 1)
        start == n - k * test_size + (i - 1) * test_size
    IN  [train |-> 1..start, test |-> (start + 1)..(start + test_size)]

\* KFold(n_splits=k, shuffle=True).split(X), fold i: the folds partition a random
\* permutation of the rows, the first n % k folds one row longer; any set of
\* the right size among the rows not tested yet can be the test fold.
KFoldSize(n, k, i) == (n \div k) + (IF i <= n % k THEN 1 ELSE 0)
KFold(n, k, i, used) ==
    {[train |-> (1..n) \ t, test |-> t] :
        t \in {u \in SUBSET ((1..n) \ used) : Cardinality(u) = KFoldSize(n, k, i)}}

\* The constructor (n_splits >= 2) and the first step of split (enough rows)
\* raise ValueError; both are outside the try of the loop.
SplitError(n, k, ts) ==
    k < 2 \/ (IF ts THEN k + 1 > n ELSE k > n)

\* The boolean array predict returned: with fewer windows than rolling_window
\* the rolling mean is nan throughout and no window is flagged; otherwise, and
\* for the forest's labels, any array.
FlagArrays(via, m) ==
    IF via = "detect_adapt_anomalies" /\ m < RollingWindow
    THEN {[i \in 1..m |-> FALSE]}
    ELSE [1..m -> BOOLEAN]

\* normalize_scores on a boolean array: max() of an empty array raises
\* ValueError; a constant array gives zeros_like (all False); otherwise the
\* subtraction of booleans raises TypeError.
normalize_scores_bool(flags) ==
    IF flags = <<>> THEN [kind |-> "ValueError", val |-> <<>>]
    ELSE IF \A i \in DOMAIN flags : flags[i] = flags[1]
    THEN [kind |-> "ok", val |-> [i \in DOMAIN flags |-> 0]]
    ELSE [kind |-> "TypeError", val |-> <<>>]

HasBothClasses(y) == (\E i \in DOMAIN y : y[i] = 0) /\ (\E i \in DOMAIN y : y[i] = 1)

\* Lines 88-93: roc_auc_score raises ValueError when y_test holds one class only
\* (a release that returns nan with a warning instead is the case nanroc); the
\* calls after it accept what it accepted, and the five appends follow.
FoldMetrics_F1First(cv, fold, y_test, nanroc) ==
    IF ~HasBothClasses(y_test) /\ ~nanroc
    THEN [kind |-> "ValueError", cv |-> [cv EXCEPT !.f1 = Append(@, fold)]]
    ELSE [kind |-> "ok",
          cv |-> [m \in DOMAIN cv |-> Append(cv[m], fold)]]
FoldMetrics(cv, fold, y_test, nanroc) ==
    IF ~HasBothClasses(y_test) /\ ~nanroc
    THEN [kind |-> "ValueError", cv |-> cv]
    ELSE [kind |-> "ok",
          cv |-> [m \in DOMAIN cv |-> Append(cv[m], fold)]]

\* Lines 81-93 on the flags predict returned: normalize; find the threshold
\* (method f1: the normalization of the zeros is again zeros, and f1_score
\* raises ValueError exactly when y_test and the scores differ in length, every
\* other case returning a threshold); then the metrics.
ScoreFold(cv, fold, y_test, flags, nanroc) ==
    LET norm == normalize_scores_bool(flags)
        met == FoldMetrics(cv, fold, y_test, nanroc)
    IN  IF norm.kind # "ok"
        THEN [stage |-> "normalize_scores", kind |-> norm.kind, cv |-> cv]
        ELSE IF Len(norm.val) # Len(y_test)
        THEN [stage |-> "find_optimal_threshold", kind |-> "ValueError", cv |-> cv]
        ELSE IF met.kind # "ok"
        THEN [stage |-> "metrics", kind |-> met.kind, cv |-> met.cv]
        ELSE [stage |-> "done", kind |-> "ok", cv |-> met.cv]

\* except Exception as e: log and continue.  Everything a fold raises here is
\* an Exception.
OnFoldError_Reraise(kind) == "raise"
OnFoldError(kind) == "continue"

CVArgs ==
    UNION {[n : {n}, bad : {0, 1, n}, shape : Shapes, y : [1..n -> {0, 1}],
            k : 1..MaxSplits, ts : BOOLEAN] : n \in 1..MaxSamples}

C_Start ==
    /\ c_args \in CVArgs
    /\ c_pc = "idle"
    /\ c_used = {}
    /\ c_split = [train |-> {}, test |-> {}]
    /\ c_log = <<>>
    /\ cv_scores = EmptyScores

\* Lines 66-70 and the first step of enumerate(cv.split(X)).
C_Enter ==
    /\ c_pc = "idle"
    /\ c_pc' = IF SplitError(c_args.n, c_args.k, c_args.ts) THEN "ValueError" ELSE "loop"
    /\ UNCHANGED <<c_args, c_used, c_split, c_log, cv_scores, d_vars, c_others>>

\* The body of the try for one fold (lines 74-98): every way it can end, as
\* the detector's state after it, the last call made on the detector, the log
\* entry and the result lists.
FoldOutcomes(w, sc, ng, L, dispatch, cv, fold, X_train, X_test, y_test) ==
    LET f == fit(w, sc, ng, L, X_train)
        p == predict(f.is_adapt, f.weights, f.scaler, f.ngafid, L, X_test)
        Entry(stage, kind, n_scores) ==
            [fold |-> fold, stage |-> stage, kind |-> kind, n_test |-> Len(y_test),
             n_scores |-> n_scores, both |-> HasBothClasses(y_test)]
    IN  IF f.kind # "ok"
        THEN {[fit |-> f, dispatch |-> dispatch,
               call |-> Called("fit", f.kind, X_train.frame, <<>>),
               entry |-> Entry("fit", f.kind, 0), cv |-> cv]}
        ELSE IF p.kind # "ok"
        THEN {[fit |-> f, dispatch |-> p.via,
               call |-> Called("predict", p.kind, X_test.frame, p.val),
               entry |-> Entry("predict", p.kind, 0), cv |-> cv]}
        ELSE {[fit |-> f, dispatch |-> p.via,
               call |-> Called("predict", p.kind, X_test.frame, p.val),
               entry |-> Entry(sf.out.stage, sf.out.kind, sf.n), cv |-> sf.out.cv] :
                  sf \in {[out |-> ScoreFold(cv, fold, y_test, flags, nanroc),
                           n |-> Len(flags)] :
                              flags \in FlagArrays(p.via, Len(p.val)), nanroc \in BOOLEAN}}

\* One round of the for loop: the next (train_idx, test_idx), the try body, and
\* the except clause when the body raised.
C_Fold ==
    /\ c_pc = "loop"
    /\ Len(c_log) < c_args.k
    /\ LET fold == Len(c_log) + 1
           X == XFrame(c_args.n, c_args.bad)
       IN  \E split \in (IF c_args.ts
                         THEN {TimeSeriesSplit(c_args.n, c_args.k, fold)}
                         ELSE KFold(c_args.n, c_args.k, fold, c_used)) :
           \E o \in FoldOutcomes(d_weights, d_adapt_scaler, d_ngafid, d_L, d_dispatch,
                                 cv_scores, fold,
                                 [shape |-> c_args.shape, frame |-> Take(X, split.train)],
                                 [shape |-> c_args.shape, frame |-> Take(X, split.test)],
                                 Take(c_args.y, split.test)) :
              /\ c_split' = split
              /\ c_used' = c_used \cup split.test
              /\ d_weights' = o.fit.weights
              /\ d_adapt_scaler' = o.fit.scaler
              /\ d_ngafid' = o.fit.ngafid
              /\ d_is_adapt' = o.fit.is_adapt
              /\ d_last_fit' = c_args.shape
              /\ d_dispatch' = o.dispatch
              /\ d_result' = o.call
              /\ c_log' = Append(c_log, o.entry)
              /\ cv_scores' = o.cv
              /\ c_pc' = IF o.entry.kind # "ok" /\ OnFoldError(o.entry.kind) = "raise"
                         THEN "raised" ELSE "loop"
    /\ UNCHANGED <<c_args, d_L, c_others>>

\* return cv_scores
C_Return ==
    /\ c_pc = "loop"
    /\ Len(c_log) = c_args.k
    /\ c_pc' = "returned"
    /\ UNCHANGED <<c_args, c_used, c_split, c_log, cv_scores, d_vars, c_others>>

C_Next == C_Enter \/ C_Fold \/ C_Return

\* The detector handed to cross_validate is new; its sequence_length matters for
\* two-axis inputs only and is left at 1 for the others.
C_Init ==
    /\ C_Start /\ D_Start /\ P_Idle /\ W_Idle /\ E_Idle /\ V_Idle /\ R_Idle /\ A_Idle /\ T_Idle /\ F_Idle
    /\ c_args.shape = "1d" => d_L = 1

SpecCV == C_Init /\ [][C_Next]_vars

(***************************************************************************)
(* The evaluator's registry: AnomalyEvaluator.evaluate with the default    *)
(* threshold (None) on a dataset name.  self.metrics maps a name to the    *)
(* dictionary _calculate_metrics returned, Absent for a name not stored.   *)
(***************************************************************************)
EvalLabels == {<<0, 1>>, <<0, 0>>}
EvalScores == {<<1, 3>>, <<3, 3>>}

\* A ratio of two counts as numpy computes it: nan on a zero denominator (a
\* warning, no exception).
Ratio(a, b) == IF b = 0 THEN [kind |-> "nan"] ELSE [kind |-> "num", v |-> Rat(a, b)]

\* sklearn roc_auc_score: the share of (positive, negative) pairs the scores
\* order correctly, ties counting half; with one class only in y_true it raises
\* ValueError (a release that returns nan with a warning is the case nanroc).
roc_auc_score(y, S, nanroc) ==
    LET pairs == {q \in (DOMAIN y) \X (DOMAIN y) : y[q[1]] = 1 /\ y[q[2]] = 0}
        gt == Cardinality({q \in pairs : S.num[q[1]] > S.num[q[2]]})
        eq == Cardinality({q \in pairs : S.num[q[1]] = S.num[q[2]]})
    IN  IF HasBothClasses(y) THEN [kind |-> "num", v |-> Rat(2 * gt + eq, 2 * Cardinality(pairs))]
        ELSE IF nanroc THEN [kind |-> "nan"]
        ELSE [kind |-> "ValueError"]

\* _calculate_metrics: tn, fp, fn, tp = confusion_matrix(y_true, y_pred).ravel()
\* (ValueError when the matrix is 1x1: a single label in y_true and y_pred
\* together), then the dictionary; roc_auc_score may raise, the ratios may be
\* nan.  classification_report and average_precision_score do not raise on
\* these inputs and are left out of the dictionary.
calculate_metrics(y, p, S, nanroc) ==
    LET tp == TP(y, p)
        tn == TN(y, p)
        fp == FP(y, p)
        fn == FN(y, p)
        auc == roc_auc_score(y, S, nanroc)
    IN  IF Cardinality({y[i] : i \in DOMAIN y} \cup {p[i] : i \in DOMAIN p}) < 2
        THEN [kind |-> "ValueError", at |-> "confusion_matrix"]
        ELSE IF auc.kind = "ValueError"
        THEN [kind |-> "ValueError", at |-> "roc_auc_score"]
        ELSE [kind |-> "metrics",
              confusion_matrix |-> <<tn, fp, fn, tp>>,
              roc_auc |-> auc,
              mcc |-> matthews_corrcoef(y, p),
              specificity |-> Ratio(tn, tn + fp),
              sensitivity |-> Ratio(tp, tp + fn),
              precision |-> Ratio(tp, tp + fp),
              recall |-> Ratio(tp, tp + fn),
              f1 |-> f1_score(y, p)]

\* Lines 112-119: normalize, find the threshold (method f1), predict, compute.
EvaluateMetrics(y, S, nanroc) ==
    LET scores == normalize_scores(S)
        threshold == find_optimal_threshold(y, scores, "f1")
    IN  calculate_metrics(y, Predict(scores, threshold.t), scores, nanroc)

\* evaluate: m is what lines 112-119 computed or raised; the metrics are stored
\* under dataset_name (line 119), then the five plots are drawn and saved and
\* the results file is written (lines 122-129; io is what the file system
\* answers), then the entry is returned.
evaluate_StoreOnReturn(reg, name, m, io) ==
    IF m.kind # "metrics"
    THEN [stage |-> "_calculate_metrics", kind |-> m.kind, metrics |-> reg]
    ELSE IF io # "ok"
    THEN [stage |-> "plots", kind |-> io, metrics |-> reg]
    ELSE [stage |-> "returned", kind |-> "ok", metrics |-> [reg EXCEPT ![name] = m]]
evaluate(reg, name, m, io) ==
    IF m.kind # "metrics"
    THEN [stage |-> "_calculate_metrics", kind |-> m.kind, metrics |-> reg]
    ELSE IF io # "ok"
    THEN [stage |-> "plots", kind |-> io, metrics |-> [reg EXCEPT ![name] = m]]
    ELSE [stage |-> "returned", kind |-> "ok", metrics |-> [reg EXCEPT ![name] = m]]

\* evaluator = AnomalyEvaluator(...)
R_Construct ==
    /\ r_last.name # "none"
    /\ r_metrics' = [n \in DatasetNames |-> Absent]
    /\ r_passed' = [n \in DatasetNames |-> Absent]
    /\ r_returned' = [n \in DatasetNames |-> Absent]
    /\ r_last' = NoEvaluate
    /\ UNCHANGED r_others

\* evaluator.evaluate(y_true, scores, dataset_name=name); the histories record
\* the call with the metrics it computed.
R_Evaluate ==
    /\ \E y \in EvalLabels, s \in EvalScores, nanroc \in BOOLEAN :
       \E m \in {EvaluateMetrics(y, [num |-> s, den |-> 1], nanroc)} :
       \E name \in DatasetNames, io \in {"ok", "OSError"} :
       \E r \in {evaluate(r_metrics, name, m, io)} :
       \E call \in {[kind |-> "call", y |-> y, scores |-> s, metrics |-> m]} :
          /\ r_metrics' = r.metrics
          /\ r_passed' = IF r.stage \in {"plots", "returned"}
                         THEN [r_passed EXCEPT ![name] = call] ELSE r_passed
          /\ r_returned' = IF r.stage = "returned"
                           THEN [r_returned EXCEPT ![name] = call] ELSE r_returned
          /\ r_last' = [name |-> name, stage |-> r.stage, kind |-> r.kind, y |-> y,
                        scores |-> s, before |-> r_metrics]
    /\ UNCHANGED r_others

R_Next == R_Construct \/ R_Evaluate

R_Init == R_Idle /\ W_Idle /\ E_Idle /\ V_Idle /\ D_Idle /\ P_Idle /\ C_Idle /\ A_Idle /\ T_Idle /\ F_Idle

SpecRegistry == R_Init /\ [][R_Next]_vars

(***************************************************************************)
(* The detection run of main: the four arrays are computed on the data,    *)
(* the models are saved and save_detection_results writes the artifact.    *)
(* A timestamp is identified by the row of the series it belongs to.       *)
(***************************************************************************)
\* save_detection_results: adapt_results.json and ngafid_results.json.
\* time_strings has one entry per row of adapt_data; the anomaly and score
\* arrays are written as given; the timeline pairs time_strings[i] with entry i
\* of both arrays for i in range(len(adapt_anomalies)).
save_detection_results(adapt_data, adapt_anomalies, adapt_scores, ngafid_data, ngafid_anomalies, ngafid_scores) ==
    LET time_strings == [i \in DOMAIN adapt_data |-> [row |-> i]]
    IN  [kind |-> "ok",
         adapt |-> [timeSeriesData |-> time_strings,
                    anomalies |-> adapt_anomalies,
                    anomalyScores |-> adapt_scores,
                    timeline |-> [i \in DOMAIN adapt_anomalies |->
                                     [time |-> time_strings[i],
                                      score |-> adapt_scores[i],
                                      anomaly |-> adapt_anomalies[i]]]],
         ngafid |-> [flightData |-> [i \in DOMAIN ngafid_data |-> [row |-> i]],
                     anomalies |-> ngafid_anomalies,
                     anomalyScores |-> ngafid_scores]]

\* The first of the four calls that raised, or "ok".
FirstError(kinds) ==
    IF \A i \in DOMAIN kinds : kinds[i] = "ok" THEN "ok"
    ELSE kinds[CHOOSE i \in DOMAIN kinds :
                  kinds[i] # "ok" /\ \A j \in 1..(i - 1) : kinds[j] = "ok"]

\* main, lines 380-399: detect_adapt_anomalies, get_adapt_anomaly_scores,
\* detect_ngafid_anomalies and get_ngafid_anomaly_scores on the data, then
\* save_models and save_detection_results; an exception ends the run with
\* nothing written.
A_DetectionRun ==
    /\ p_phase = "build"
    /\ \E f \in DFrames, g \in DFrames :
       \E a \in {detect_adapt_anomalies(d_weights, d_adapt_scaler, d_L, f)} :
       \E sc \in {get_adapt_anomaly_scores(d_weights, d_adapt_scaler, d_L, f)} :
       \E na \in {detect_ngafid_anomalies(d_ngafid, g)} :
       \E ns \in {get_ngafid_anomaly_scores(d_ngafid, g)} :
       \E kind \in {FirstError(<<a.kind, sc.kind, na.kind, ns.kind>>)} :
          /\ d_result' = Called("main", kind, f, a.val)
          /\ IF kind = "ok"
             THEN /\ a_results' = save_detection_results(f, a.val, sc.val, g, na.val, ns.val)
                  /\ p_phase' = "saved"
                  /\ p_dir' = [x \in Artifacts |-> TRUE]
                  /\ p_saved' = [weights |-> d_weights, scaler |-> d_adapt_scaler,
                                 ngafid |-> d_ngafid, L |-> d_L]
                  /\ p_loader' = "saver"
             ELSE /\ a_results' = [kind |-> kind]
                  /\ UNCHANGED p_vars
    /\ UNCHANGED <<d_weights, d_adapt_scaler, d_ngafid, d_L, d_unified, a_others>>

A_Next == D_Construct \/ D_FitAdapt \/ D_FitNgafid \/ A_DetectionRun

SpecDetectionRun == D_Init /\ [][A_Next]_vars

(***************************************************************************)
(* The dynamic threshold of detect_adapt_anomalies (lines 203-206) on the  *)
(* array of reconstruction errors.  The errors are finite numbers, held as *)
(* integers.  A rolling mean is held as the sum of its window (the mean is *)
(* sum / rolling_window), a standard deviation as its square, a rational.  *)
(***************************************************************************)
MaxErrors == 4    \* windows of a series in SpecThreshold
MaxWindow == 3    \* rolling_window values in SpecThreshold
ErrorVals == {0, 1, 4}

RECURSIVE SumRange(_, _, _)
SumRange(s, lo, hi) == IF lo > hi THEN 0 ELSE s[hi] + SumRange(s, lo, hi - 1)

\* pd.Series(reconstruction_errors).rolling(rolling_window).mean(): NaN at the
\* first rolling_window-1 positions, then the mean of the rolling_window errors
\* ending at the position.
rolling_mean_ZeroPadded(errors, w) ==
    [i \in DOMAIN errors |-> [kind |-> "num", sum |-> SumRange(errors, Max(1, i - w + 1), i)]]
rolling_mean(errors, w) ==
    [i \in DOMAIN errors |->
        IF i < w THEN NaN
        ELSE [kind |-> "num", sum |-> SumRange(errors, i - w + 1, i)]]

RECURSIVE SumSq(_, _, _, _)
SumSq(rm, k, T, i) ==
    IF i = 0 THEN 0
    ELSE (IF rm[i].kind = "num" THEN (k * rm[i].sum - T) * (k * rm[i].sum - T) ELSE 0)
         + SumSq(rm, k, T, i - 1)
RECURSIVE SumDefined(_, _)
SumDefined(rm, i) ==
    IF i = 0 THEN 0
    ELSE (IF rm[i].kind = "num" THEN rm[i].sum ELSE 0) + SumDefined(rm, i - 1)

\* rolling_mean.std(): the sample standard deviation (ddof = 1) of the defined
\* entries of the whole series of rolling means, one number; NaN with fewer than
\* two defined entries.  With k defined means S_i / w of total T / w its square is
\* sum (k S_i - T)^2 / (k^2 (k-1) w^2).
Series_std(rm, w) ==
    LET k == Cardinality({i \in DOMAIN rm : rm[i].kind = "num"})
    IN  IF k < 2 THEN NaN
        ELSE [kind |-> "num",
              sq |-> [num |-> SumSq(rm, k, SumDefined(rm, Len(rm)), Len(rm)),
                      den |-> k * k * (k - 1) * w * w]]

\* dynamic_threshold = rolling_mean + rolling_mean.std(): NaN where the mean is
\* NaN, and everywhere when the deviation is NaN.
dynamic_threshold(errors, w) ==
    LET rm == rolling_mean(errors, w)
        sd == Series_std(rm, w)
    IN  [i \in DOMAIN errors |->
            IF rm[i].kind = "nan" \/ sd.kind = "nan" THEN NaN
            ELSE [kind |-> "num", sum |-> rm[i].sum, w |-> w, sq |-> sd.sq]]

\* Series.bfill(): a NaN takes the next defined value after it, if there is one.
bfill_None(th) == th
bfill(th) ==
    [i \in DOMAIN th |->
        IF th[i].kind = "num" THEN th[i]
        ELSE IF \E j \in DOMAIN th : j > i /\ th[j].kind = "num"
        THEN th[CHOOSE j \in DOMAIN th :
                    /\ j > i /\ th[j].kind = "num"
                    /\ \A l \in DOMAIN th : (l > i /\ th[l].kind = "num") => j <= l]
        ELSE NaN]

\* error > threshold, the threshold being sum / w + sqrt(sq); a comparison with
\* NaN is False.
ExceedsThreshold_OrEqual(error, th) ==
    IF th.kind = "nan" THEN FALSE
    ELSE LET d == th.w * error - th.sum
         IN  d >= 0 /\ d * d * th.sq.den >= th.sq.num * th.w * th.w
ExceedsThreshold(error, th) ==
    IF th.kind = "nan" THEN FALSE
    ELSE LET d == th.w * error - th.sum
         IN  d > 0 /\ d * d * th.sq.den > th.sq.num * th.w * th.w

\* Lines 203-206: the thresholds after the back-fill and the flags returned.
ThresholdFlags(errors, w) ==
    LET th == bfill(dynamic_threshold(errors, w))
    IN  [kind |-> "ok", thresholds |-> th,
         flags |-> [i \in DOMAIN errors |-> ExceedsThreshold(errors[i], th[i])]]

T_Start ==
    /\ t_errors \in UNION {[1..n -> ErrorVals] : n \in 1..MaxErrors}
    /\ t_window \in 1..MaxWindow
    /\ t_out = [kind |-> "none"]

\* detect_adapt_anomalies(data, rolling_window) once the errors are computed
T_Detect ==
    /\ t_out.kind = "none"
    /\ t_out' = ThresholdFlags(t_errors, t_window)
    /\ UNCHANGED <<t_errors, t_window, t_others>>

T_Next == T_Detect

T_Init ==
    /\ T_Start /\ W_Idle /\ E_Idle /\ V_Idle /\ D_Idle /\ P_Idle /\ C_Idle /\ R_Idle
    /\ A_Idle /\ F_Idle

SpecThreshold == T_Init /\ [][T_Next]_vars

(***************************************************************************)
(* The tabular modality on the rows of a fitted detector, in numbers: the  *)
(* forest's decision_function of each row is an integer.  The flags and    *)
(* scores go into ngafid_results.json and from there to the serving        *)
(* endpoint get_anomaly_results.                                           *)
(***************************************************************************)
MaxFlights == 3    \* rows of the tabular data in SpecTabular
DecisionVals == {-1, 0, 1}

\* IsolationForest.predict: -1 where decision_function < 0, else 1.
forest_predict(decision) == [i \in DOMAIN decision |-> IF decision[i] < 0 THEN -1 ELSE 1]

\* NGAFIDAnomalyDetector.score_samples: -decision_function(scaled_data)
score_samples_NoNegation(decision) == decision
score_samples(decision) == [i \in DOMAIN decision |-> 0 - decision[i]]

\* detect_ngafid_anomalies: self.ngafid_detector.predict(data) == -1
TabularFlags(decision) == [i \in DOMAIN decision |-> forest_predict(decision)[i] = -1]

\* Python's anomaly == -1 on a value read from the JSON file: a bool compares as
\* the integer 0 or 1.
EqualsMinusOne(anomaly) ==
    IF anomaly \in BOOLEAN THEN (IF anomaly THEN 1 ELSE 0) = -1 ELSE anomaly = -1

\* get_anomaly_results, the 'ngafid' part: 404 when the result files are
\* missing, else one prediction per zipped (flight, score, anomaly).
get_anomaly_results(artifact) ==
    IF artifact.kind = "none" THEN [kind |-> "404"]
    ELSE [kind |-> "ok",
          maintenancePredictions |->
              [i \in 1..Min(Len(artifact.flightData),
                            Min(Len(artifact.anomalyScores), Len(artifact.anomalies))) |->
                  [flightId |-> artifact.flightData[i],
                   maintenanceProbability |-> artifact.anomalyScores[i],
                   needsMaintenance |-> EqualsMinusOne(artifact.anomalies[i]),
                   anomalyScore |-> artifact.anomalyScores[i]]]]

F_Start ==
    /\ f_decision \in UNION {[1..n -> DecisionVals] : n \in 1..MaxFlights}
    /\ f_flags = <<>> /\ f_scores = <<>>
    /\ f_artifact = [kind |-> "none"] /\ f_response = [kind |-> "none"]

\* main: ngafid_anomalies = detector.detect_ngafid_anomalies(ngafid_data);
\* ngafid_scores = detector.get_ngafid_anomaly_scores(ngafid_data)
F_Detect ==
    /\ f_flags = <<>>
    /\ f_flags' = TabularFlags(f_decision)
    /\ f_scores' = score_samples(f_decision)
    /\ UNCHANGED <<f_decision, f_artifact, f_response, f_others>>

\* save_detection_results, the tabular half: the index as strings, the flags
\* and the scores as lists.
F_SaveResults ==
    /\ f_flags # <<>>
    /\ f_artifact.kind = "none"
    /\ f_artifact' = [kind |-> "ok",
                      flightData |-> [i \in DOMAIN f_decision |-> [row |-> i]],
                      anomalies |-> f_flags,
                      anomalyScores |-> f_scores]
    /\ UNCHANGED <<f_decision, f_flags, f_scores, f_response, f_others>>

\* GET on the endpoint
F_GetAnomalyResults ==
    /\ f_response' = get_anomaly_results(f_artifact)
    /\ f_response' # f_response
    /\ UNCHANGED <<f_decision, f_flags, f_scores, f_artifact, f_others>>

F_Next == F_Detect \/ F_SaveResults \/ F_GetAnomalyResults

F_Init ==
    /\ F_Start /\ W_Idle /\ E_Idle /\ V_Idle /\ D_Idle /\ P_Idle /\ C_Idle /\ R_Idle
    /\ A_Idle /\ T_Idle

SpecTabular == F_Init /\ [][F_Next]_vars

\* The metric the scan computes at grid threshold k for the inputs held.
MetricAt(k) ==
    Metric(e_method, e_y, Predict(normalize_scores(e_scores), ThresholdAt(k)))

NonConstant(S) == SeqMax(S.num) # SeqMin(S.num)

\* C3: normalize_scores maps a non-constant array into [0,1] with every minimum
\* mapped to 0 and every maximum to 1, keeping the order of the elements; it
\* maps a constant array to zeros; and normalizing a normalized array changes
\* no value.
C3_NormalizeRangeAndIdempotent ==
    (e_norms >= 1) =>
        /\ Len(e_scores.num) = Len(e_prev.num)
        /\ e_scores.den > 0
        /\ NonConstant(e_prev) =>
              \A i \in DOMAIN e_prev.num :
                 /\ 0 <= e_scores.num[i] /\ e_scores.num[i] <= e_scores.den
                 /\ (e_prev.num[i] = SeqMin(e_prev.num)) => (e_scores.num[i] = 0)
                 /\ (e_prev.num[i] = SeqMax(e_prev.num))
                       => (e_scores.num[i] = e_scores.den)
                 /\ \A j \in DOMAIN e_prev.num :
                       (e_prev.num[i] < e_prev.num[j])
                           <=> (e_scores.num[i] < e_scores.num[j])
        /\ ~NonConstant(e_prev) => \A i \in DOMAIN e_prev.num : e_scores.num[i] = 0
        /\ (e_norms >= 2) =>
              \A i \in DOMAIN e_prev.num :
                 e_scores.num[i] * e_prev.den = e_prev.num[i] * e_scores.den

\* A three-element array with three distinct values was normalized twice.
C3_Witness ==
    /\ e_norms = 2
    /\ Len(e_scores.num) = 3
    /\ Cardinality({e_scores.num[i] : i \in DOMAIN e_scores.num}) = 3
    /\ e_scores.den = 100

\* C4 (as claimed): for every labels, scores and method, find_optimal_threshold
\* returns a value in [0,1]: the lowest grid threshold k/99 whose metric equals the
\* maximum over the grid, or 0.5 when no grid threshold has a metric above 0.
C4_ThresholdIsLowestArgmax ==
    (e_out.kind # "none") =>
        /\ e_out.kind = "ok"
        /\ 0 <= e_out.t.n /\ e_out.t.n <= e_out.t.d
        /\ LET K == 0..(NumThresholds - 1)
               Pos == {k \in K : MetricAt(k).kind = "num"
                                   /\ RatGT(MetricAt(k).v, Rat(0, 1))}
           IN  IF Pos = {} THEN RatEq(e_out.t, Rat(1, 2))
               ELSE \E k \in Pos :
                       /\ e_out.t = ThresholdAt(k)
                       /\ \A j \in Pos : ~RatGT(MetricAt(j).v, MetricAt(k).v)
                       /\ \A j \in Pos : j < k => RatGT(MetricAt(k).v, MetricAt(j).v)

\* At least one positive and one negative, every positive's score above every
\* negative's.
Separable(y, S) ==
    /\ \E i \in DOMAIN y : y[i] = 1
    /\ \E i \in DOMAIN y : y[i] = 0
    /\ \A i, j \in DOMAIN y : (y[i] = 1 /\ y[j] = 0) => S.num[i] > S.num[j]

\* F1 = 1.0 at threshold t: no false positive and no false negative, that is,
\* "normalized score > t" is the label of every sample.
PerfectAt(t) == Predict(normalize_scores(e_scores), t) = e_y

\* C5 (as claimed): on every perfectly separable input the threshold returned
\* with method f1 achieves F1 = 1.0.
C5_SeparableGetsPerfectF1 ==
    (e_method = "f1" /\ e_out.kind = "ok" /\ Separable(e_y, e_scores))
        => PerfectAt(e_out.t)

\* C5 (amended): on every perfectly separable input for which some grid threshold
\* k/99 has every normalized negative score <= k/99 < every normalized positive
\* score, the threshold returned with method f1 achieves F1 = 1.0.
C5_SeparableOnGridGetsPerfectF1 ==
    (/\ e_method = "f1" /\ e_out.kind = "ok" /\ Separable(e_y, e_scores)
     /\ \E k \in 0..(NumThresholds - 1) : PerfectAt(ThresholdAt(k)))
        => PerfectAt(e_out.t)

\* Negatives -1 and 49, positive 99: the threshold returned is 50/99, above 0.
C5_Witness ==
    /\ e_method = "f1" /\ e_out.kind = "ok" /\ Separable(e_y, e_scores)
    /\ Len(e_y) = 3
    /\ e_out.t.n > 0
    /\ PerfectAt(e_out.t)

\* The comparison of the magnitude, abs(c) > x: True for both infinities.
AbsGreaterThan(c, x) == IsInf(c) \/ (c.kind = "num" /\ (c.v > x \/ c.v < 0 - x))
\* No nan and no number of magnitude above the sanity bound.
WithinSanity(f) ==
    \A c \in Cells(f) : c.kind # "nan" /\ (c.kind = "num" => ~AbsGreaterThan(c, SanityBound))

\* C6 (as claimed): TabularModel.fit (NGAFIDAnomalyDetector.fit) raises a
\* data-quality error whenever the column holds an infinity, and completes
\* without error once every infinity is replaced by a finite value.  (Any
\* exception is counted as the error here.)
C6_TabularFitRejectsInfinity ==
    (v_out.op = "NGAFIDAnomalyDetector.fit") =>
        /\ HasInf(v_frame) => v_out.kind # "ok"
        /\ (v_replaced /\ WithinSanity(v_frame)) => v_out.kind = "ok"

\* C6 (amended): fit_ngafid, which validates before it calls the tabular
\* model's fit, raises a data-quality error whenever the column holds an
\* infinity, and completes without error once every infinity is replaced by a
\* finite value, the table then holding no nan and no magnitude above 1e6.
C6_FitNgafidRejectsInfinity ==
    (v_out.op = "fit_ngafid") =>
        /\ HasInf(v_frame) => v_out.kind = "DataQualityError"
        /\ (v_replaced /\ WithinSanity(v_frame)) => v_out.kind = "ok"

\* fit_ngafid ran on a table whose two infinities were replaced.
C6_Witness ==
    /\ v_out.op = "fit_ngafid" /\ v_out.kind = "ok"
    /\ v_replaced /\ Len(v_frame) = 2 /\ v_frame[1] = Num(SanityBound)

\* C7 (as claimed): the validation rule raises a data-quality error exactly for
\* the tables in which some value is nan, is +inf or -inf, or has a magnitude
\* above 1e6, positive or negative.
C7_ValidationRejectsExactlyBadTables ==
    (v_out.op = "validate_data") =>
        ((v_out.kind = "DataQualityError") <=>
            \E c \in Cells(v_frame) : IsNull(c) \/ AbsGreaterThan(c, SanityBound))

\* C2: with fewer rows than the window length (N < L, N = L-1 included) none of
\* fit_adapt, detect_adapt_anomalies and get_adapt_anomaly_scores returns a
\* result: each such call ends in an error.
C2_ShortSeriesNeverReturns ==
    (/\ d_result.op \in {"fit_adapt", "detect_adapt_anomalies", "get_adapt_anomaly_scores"}
     /\ d_result.rows < d_L)
        => d_result.kind # "ok"

\* C8: a step in which fit_adapt or fit_ngafid ends in the data-quality error
\* leaves the sequence parameters, the sequence scaler and the tabular detector
\* (its scaler and its forest) as they were before the call.
C8_RejectionLeavesModelsUntouched ==
    [][(/\ d_result'.op \in {"fit_adapt", "fit_ngafid"}
        /\ d_result'.kind = "DataQualityError")
          => UNCHANGED <<d_weights, d_adapt_scaler, d_ngafid>>]_vars
\* A rejected fit_adapt on a detector whose two modalities were fitted before.
C8_Witness ==
    /\ d_result.op = "fit_adapt"
    /\ d_result.kind = "DataQualityError"
    /\ d_weights # <<>>
    /\ d_adapt_scaler.fitted
    /\ d_ngafid.forest.fitted

\* What the detector that was saved returns for the table f.
BothFitted(sv) == sv.weights # <<>> /\ sv.scaler.fitted /\ sv.ngafid.forest.fitted
SaverAdaptScores(f) ==
    get_adapt_anomaly_scores(p_saved.weights, p_saved.scaler, p_saved.L, f)
SaverNgafidScores(f) == get_ngafid_anomaly_scores(p_saved.ngafid, f)
SameAsSaver ==
    /\ d_result.op = "get_adapt_anomaly_scores"
          => /\ d_result.kind = SaverAdaptScores(d_result.arg).kind
             /\ d_result.val = SaverAdaptScores(d_result.arg).val
    /\ d_result.op = "get_ngafid_anomaly_scores"
          => /\ d_result.kind = SaverNgafidScores(d_result.arg).kind
             /\ d_result.val = SaverNgafidScores(d_result.arg).val

\* C9 as stated: after a save of a detector with both modalities fitted, every
\* new instance on which load_models succeeded returns, for any table, the
\* scores the saved detector returns for it.
C9_AnyFreshInstanceRoundTrips ==
    (p_loader = "loaded" /\ BothFitted(p_saved)) => SameAsSaver
\* C9 amended: the same, for a new instance constructed with the sequence_length
\* of the saved detector.
C9_SameLengthInstanceRoundTrips ==
    (p_loader = "loaded" /\ BothFitted(p_saved) /\ d_L = p_saved.L) => SameAsSaver
\* A loaded instance of the saver's sequence_length has returned window scores.
C9_Witness ==
    /\ p_loader = "loaded"
    /\ BothFitted(p_saved)
    /\ d_L = p_saved.L
    /\ d_result.op = "get_adapt_anomaly_scores"
    /\ d_result.kind = "ok"
    /\ d_result.len >= 1

\* C10: a step in which load_models ends in FileNotFoundError leaves the
\* sequence parameters, the sequence scaler and the tabular detector of the
\* instance as they were before the call.
C10_FailedLoadInstallsNothing ==
    [][(/\ d_result'.op = "load_models"
        /\ d_result'.kind = "FileNotFoundError")
          => UNCHANGED <<d_weights, d_adapt_scaler, d_ngafid>>]_vars

\* C11: each modality's artifacts load without the other's.  A load_models call
\* on a directory that holds only ngafid_detector.joblib installs the saved
\* tabular detector, and one on a directory that holds only adapt_detector.pth
\* and adapt_scaler.joblib installs the saved parameters and sequence scaler.
\* (A load_models step is a step that ends with its record in d_result and
\* leaves the directory as it is.)
OnlyTabular(dir) ==
    dir["ngafid_detector.joblib"] /\ ~dir["adapt_detector.pth"] /\ ~dir["adapt_scaler.joblib"]
OnlySequence(dir) ==
    ~dir["ngafid_detector.joblib"] /\ dir["adapt_detector.pth"] /\ dir["adapt_scaler.joblib"]
C11_ArtifactsLoadIndependently ==
    [][(d_result'.op = "load_models" /\ UNCHANGED p_dir) =>
          /\ OnlyTabular(p_dir) => d_ngafid' = p_saved.ngafid
          /\ OnlySequence(p_dir) =>
                (d_weights' = p_saved.weights /\ d_adapt_scaler' = p_saved.scaler)]_vars

\* C12: a detect_* or get_*_scores call of a modality whose fit_* has not
\* completed on this instance ends in an error, whatever was fitted for the
\* other modality.  (Without load_models, fit_adapt has completed exactly when
\* the parameters were trained, fit_ngafid exactly when the forest is fitted.)
AdaptQueries == {"detect_adapt_anomalies", "get_adapt_anomaly_scores"}
NgafidQueries == {"detect_ngafid_anomalies", "get_ngafid_anomaly_scores"}
C12_QueryBeforeFitFails ==
    /\ (d_result.op \in AdaptQueries /\ d_weights = <<>>) => d_result.kind # "ok"
    /\ (d_result.op \in NgafidQueries /\ ~d_ngafid.forest.fitted) => d_result.kind # "ok"

\* C13: the unified predict calls the method of the modality that the most
\* recent unified fit selected (the sequence modality when that fit's input had
\* two axes, the tabular one otherwise) and the sequence modality before any
\* unified fit, whatever predict's own input and whatever fit_adapt, fit_ngafid,
\* save_models or load_models calls came in between.
C13_PredictFollowsLastUnifiedFit ==
    (d_result.op = "predict") =>
        d_dispatch = IF d_last_fit \in {"none", "2d"}
                     THEN "detect_adapt_anomalies"
                     ELSE "detect_ngafid_anomalies"
\* predict on a two-axis input went to the tabular modality after a unified fit
\* on a one-axis input, with a save and a load behind it.
C13_Witness ==
    /\ d_result.op = "predict"
    /\ d_result.kind = "ok"
    /\ d_dispatch = "detect_ngafid_anomalies"
    /\ d_last_fit = "1d"
    /\ d_result.arg = <<Num(1), Num(1)>>
    /\ d_weights # <<>>
    /\ p_phase = "saved"

\* C14: with time_series=True, in every fold that cross_validate processes
\* each index of the test slice is greater than every index of the training
\* slice.
C14_TestFollowsTraining ==
    (c_args.ts /\ c_log # <<>>) =>
        \A i \in c_split.test : \A j \in c_split.train : i > j
\* The second fold of a time-series split with two test rows was processed.
C14_Witness ==
    /\ c_args.ts
    /\ Len(c_log) = 2
    /\ Cardinality(c_split.test) = 2
    /\ Cardinality(c_split.train) = 4

\* C15: a fold that raises never ends cross_validate: the call goes on with
\* the next fold, and when it returns every one of its n_splits folds was
\* processed.
C15_FailingFoldDoesNotAbort ==
    /\ c_pc # "raised"
    /\ c_pc = "returned" => Len(c_log) = c_args.k
\* cross_validate returned after a fold that raised and a later one that did not.
C15_Witness ==
    /\ c_pc = "returned"
    /\ c_log[1].kind # "ok"
    /\ c_log[2].kind = "ok"
    /\ c_log[2].both

\* C16: the five lists have the same length, the number of folds that
\* completed without raising, whichever statement a failed fold raised at.
Completed == {i \in DOMAIN c_log : c_log[i].kind = "ok"}
C16_ListsCountCompletedFolds ==
    \A m \in DOMAIN cv_scores : Len(cv_scores[m]) = Cardinality(Completed)
\* cross_validate returned with folds that raised at the normalization and at
\* the metrics, or completed.
C16_Witness ==
    /\ c_pc = "returned"
    /\ \E i \in DOMAIN c_log : c_log[i].stage \in {"normalize_scores", "metrics"}
    /\ \E i \in Completed : c_log[i].both /\ c_log[i].n_test = 2

\* C17: a fold whose fit and predict returned and whose test labels hold both
\* classes has one score per test label and appends exactly one value to each
\* of the five lists.
AppendedBy(fold, m) == Cardinality({j \in DOMAIN cv_scores[m] : cv_scores[m][j] = fold})
C17_ScoredFoldAppendsOnce ==
    \A i \in DOMAIN c_log :
        (c_log[i].stage \notin {"fit", "predict"} /\ c_log[i].both) =>
            /\ c_log[i].n_scores = c_log[i].n_test
            /\ \A m \in DOMAIN cv_scores : AppendedBy(c_log[i].fold, m) = 1

\* An evaluate call leaves the entries of every other name as they were.
OtherNamesUnchanged ==
    \A n \in DatasetNames : n # r_last.name => r_metrics[n] = r_last.before[n]

\* C18 as stated: for every dataset name whose evaluate call returned, the
\* registry holds the metrics of the most recent returned call under that
\* name, and a call leaves the entries of the other names unchanged.
C18_RegistryHoldsLastReturned ==
    /\ \A n \in DatasetNames :
          r_returned[n].kind = "call" => r_metrics[n] = r_returned[n].metrics
    /\ OtherNamesUnchanged

\* C18: for every dataset name the registry holds the metrics of the most
\* recent evaluate call under that name that computed its metrics (whether it
\* then returned or raised while the plots and the results file were written),
\* nothing for a name with no such call, and a call leaves the entries of the
\* other names unchanged.
C18_RegistryHoldsLastComputed ==
    /\ \A n \in DatasetNames :
          r_metrics[n] = IF r_passed[n].kind = "call" THEN r_passed[n].metrics ELSE Absent
    /\ OtherNamesUnchanged

\* A call under "adapt" returned, a later one under the same name with other
\* metrics raised while its plots were saved, and "ngafid" holds an entry.
C18_Witness ==
    /\ r_last.name = "adapt" /\ r_last.stage = "plots"
    /\ r_returned["adapt"].kind = "call"
    /\ r_passed["adapt"].metrics # r_returned["adapt"].metrics
    /\ r_metrics["ngafid"].kind = "metrics"

Degenerate(y, s) ==
    \/ \A i \in DOMAIN s : s[i] = s[1]
    \/ \A i \in DOMAIN y : y[i] # 1

\* C19: when all scores are identical or no label is positive, evaluate does
\* not raise in its metric computation.
C19_DegenerateMetricsDoNotRaise ==
    (r_last.name # "none" /\ Degenerate(r_last.y, r_last.scores)) =>
        r_last.stage # "_calculate_metrics"

\* C20: in the sequence-modality results a detection run wrote, the timestamp
\* array, the anomaly array and the score array have the same length, and the
\* timeline pairs every timestamp with an entry of both.
C20_ResultArraysAreParallel ==
    a_results.kind = "ok" =>
        /\ Len(a_results.adapt.anomalies) = Len(a_results.adapt.timeSeriesData)
        /\ Len(a_results.adapt.anomalyScores) = Len(a_results.adapt.timeSeriesData)
        /\ Len(a_results.adapt.timeline) = Len(a_results.adapt.timeSeriesData)

\* C21: when every window has the same reconstruction error,
\* detect_adapt_anomalies flags no window.
C21_EqualErrorsFlagNothing ==
    (t_out.kind = "ok" /\ \A i \in DOMAIN t_errors : t_errors[i] = t_errors[1]) =>
        \A i \in DOMAIN t_errors : ~t_out.flags[i]

\* Four windows of error 4 under rolling window 2: the thresholds are defined.
C21_Witness ==
    /\ t_out.kind = "ok" /\ t_window = 2
    /\ t_errors = <<4, 4, 4, 4>>
    /\ t_out.thresholds[2].kind = "num"

\* C22: with at least rolling_window errors, each of the first rolling_window
\* positions is compared with the threshold of position rolling_window, and a
\* window is flagged iff its error is strictly greater than its threshold.
C22_LeadingThresholdsBackfilled ==
    (t_out.kind = "ok" /\ Len(t_errors) >= t_window) =>
        /\ \A i \in 1..t_window : t_out.thresholds[i] = t_out.thresholds[t_window]
        /\ \A i \in DOMAIN t_errors :
              t_out.flags[i] <=> ExceedsThreshold(t_errors[i], t_out.thresholds[i])

\* Errors 4, 0, 0, 0 under rolling window 2: the first window is flagged against
\* the threshold of the second position.
C22_Witness ==
    /\ t_out.kind = "ok" /\ t_window = 2
    /\ t_errors = <<4, 0, 0, 0>>
    /\ t_out.thresholds[2].kind = "num"
    /\ t_out.flags[1] /\ ~t_out.flags[2]

\* error > mean + standard deviation (ddof = 1) of the w errors ending at i.
RollingFlag(errors, w, i) ==
    LET S == SumRange(errors, i - w + 1, i)
        d == w * errors[i] - S
        dev == [j \in 1..w |-> [kind |-> "num", sum |-> w * errors[i - w + j]]]
    IN  /\ w >= 2
        /\ d > 0
        /\ d * d * (w - 1) > SumSq(dev, 1, S, w)

\* C23: for every position i >= rolling_window the flag is the comparison of the
\* error with the mean plus the standard deviation of the rolling_window errors
\* ending at i, and it is the flag the errors up to i alone would get.
C23_ThresholdUsesOnlyThePast ==
    t_out.kind = "ok" =>
        \A i \in DOMAIN t_errors : i >= t_window =>
            /\ t_out.flags[i] = RollingFlag(t_errors, t_window, i)
            /\ t_out.flags[i] = ThresholdFlags(SubSeq(t_errors, 1, i), t_window).flags[i]

\* C29: with fewer errors than rolling_window (and at least one), the call
\* returns one flag per window and every flag is False.
C29_ShortSeriesFlagsNothing ==
    (t_out.kind # "none" /\ Len(t_errors) > 0 /\ Len(t_errors) < t_window) =>
        /\ t_out.kind = "ok"
        /\ Len(t_out.flags) = Len(t_errors)
        /\ \A i \in DOMAIN t_errors : ~t_out.flags[i]

\* Two windows of errors 0 and 4 under rolling window 3.
C29_Witness ==
    /\ t_out.kind = "ok" /\ t_window = 3
    /\ t_errors = <<0, 4>>
    /\ Len(t_out.flags) = 2

\* C25: for every row the flag of detect_ngafid_anomalies holds exactly when
\* the forest's label is -1, which is exactly when the score of
\* get_ngafid_anomaly_scores is strictly greater than 0; every flagged row has
\* a higher score than every unflagged row.
C25_FlagsAgreeWithScores ==
    f_flags # <<>> =>
        /\ \A i \in DOMAIN f_decision :
              /\ f_flags[i] <=> (forest_predict(f_decision)[i] = -1)
              /\ f_flags[i] <=> (f_scores[i] > 0)
        /\ \A i, j \in DOMAIN f_decision :
              (f_flags[i] /\ ~f_flags[j]) => f_scores[i] > f_scores[j]

\* Three rows: one below, one at and one above the forest's offset.
C25_Witness ==
    /\ f_decision = <<-1, 0, 1>>
    /\ f_flags = <<TRUE, FALSE, FALSE>>
    /\ Len(f_scores) = 3

\* C28: for every flight of the tabular artifact the endpoint reports
\* needsMaintenance = true exactly when the artifact's flag of the flight is
\* true.
C28_NeedsMaintenanceFollowsFlag ==
    f_response.kind = "ok" =>
        /\ Len(f_response.maintenancePredictions) = Len(f_artifact.anomalies)
        /\ \A i \in DOMAIN f_artifact.anomalies :
              f_response.maintenancePredictions[i].needsMaintenance = f_artifact.anomalies[i]

\* C24: detect_*, get_*_scores, the unified predict and save_models leave the
\* sequence weights, the sequence scaler and the tabular model (scaler and
\* forest) unchanged; fit_adapt, and the unified fit on a sequence input, leave
\* the tabular model unchanged; fit_ngafid, and the unified fit on a tabular
\* input, leave the sequence weights and the sequence scaler unchanged.
C24_SubModelsChangeOnlyInOwnFit ==
    [][/\ d_result'.op \in {"detect_adapt_anomalies", "get_adapt_anomaly_scores",
                           "detect_ngafid_anomalies", "get_ngafid_anomaly_scores",
                           "predict", "save_models"}
            => UNCHANGED <<d_weights, d_adapt_scaler, d_ngafid>>
       /\ (d_result'.op = "fit_adapt" \/ (d_result'.op = "fit" /\ d_is_adapt'))
            => UNCHANGED d_ngafid
       /\ (d_result'.op = "fit_ngafid" \/ (d_result'.op = "fit" /\ ~d_is_adapt'))
            => UNCHANGED <<d_weights, d_adapt_scaler>>]_vars

\* Both modalities are fitted and the last call was a unified predict that
\* returned.
C24_Witness ==
    /\ d_weights # <<>> /\ d_adapt_scaler.fitted
    /\ d_ngafid.forest.fitted
    /\ d_result.op = "predict" /\ d_result.kind = "ok"

\* C26: a unified fit that raises leaves is_adapt, the modality predict
\* dispatches to, as it was before the call.
C26_FailedFitKeepsModality ==
    [][(d_result'.op = "fit" /\ d_result'.kind # "ok") => d_is_adapt' = d_is_adapt]_vars

\* C27: after a unified fit on a table with two axes the dispatch modality is
\* the tabular one, and a following predict returns detect_ngafid_anomalies.
C27_TableFitsTabularModel ==
    /\ (d_result.op = "fit" /\ d_last_fit = "2d") => ~d_is_adapt
    /\ (d_result.op = "predict" /\ d_last_fit = "2d") =>
           d_dispatch = "detect_ngafid_anomalies"

\* C30: the fitted state a fold's test slice is scored with is the one a newly
\* constructed detector of the same sequence_length gets from a fit on that
\* fold's training slice alone, whatever folds ran before it.
C30_FoldStateIsFoldLocal ==
    (c_log # <<>> /\ c_log[Len(c_log)].stage # "fit") =>
        LET X == XFrame(c_args.n, c_args.bad)
            f == fit(<<>>, Unfitted, FreshNgafid, d_L,
                     [shape |-> c_args.shape, frame |-> Take(X, c_split.train)])
        IN  /\ d_weights = f.weights
            /\ d_adapt_scaler = f.scaler
            /\ d_ngafid = f.ngafid

====
